---- MODULE Spec2Model ----
(***************************************************************************)
(* Proposal poller and notification dispatcher of the proposal reviewer    *)
(* portal (check-proposals POST), with the proposal store, the             *)
(* subscription registry and the notification log it works on.             *)
(*                                                                         *)
(* An invocation of the handler is a process.  Its steps are its awaited    *)
(* reads and writes outside the inner loop, and one iteration of the inner *)
(* loop (one subscription: push, store writes, email fallback) at a time.  *)
(* Two invocations interleave at these steps.                              *)
(***************************************************************************)
EXTENDS Naturals, Integers, FiniteSets, Sequences, Bags, TLC

(* ---------------------------- bounds ---------------------------------- *)

\* number of proposal ids at or above the floor that the feed may publish
MaxNewIds == 2
\* number of push_subscriptions rows ever created (row ids are never reused)
MaxSubs == 3

(* ------------------------ program constants --------------------------- *)

MIN_PROPOSAL_ID == 140000

PROPOSAL_TOPICS == {0, 2, 3, 4, 5, 6, 7, 8, 9, 10, 12, 13, 14, 17, 19, 20, 21, 24}

\* topics: topics || [17]
DefaultTopics == {17}

(* ------------------------- input domains ------------------------------ *)

\* invocation slots: slot 2 is taken only while slot 1 is in flight, so two
\* invocations overlap exactly when both slots are busy
Polls == {1, 2}

\* one id below the floor, MaxNewIds ids from the floor upwards
ProposalIds == (MIN_PROPOSAL_ID - 1) .. (MIN_PROPOSAL_ID + MaxNewIds - 1)

\* the topic the feed reports for a proposal (an input of the run)
FeedTopic(id) == IF id % 2 = 0 THEN 17 ELSE 8

\* the feeds the governance canister can answer with: ids are assigned upwards
Feeds == {{[id |-> i, topic |-> FeedTopic(i)] : i \in (MIN_PROPOSAL_ID - 1) .. n} :
             n \in (MIN_PROPOSAL_ID - 2) .. (MIN_PROPOSAL_ID + MaxNewIds - 1)}

Endpoints == {"e1", "e2"}

NULL == "null"

\* the fallback address an endpoint opts in with (an input of the run)
EmailOf(endpoint) == IF endpoint = "e1" THEN "a@x" ELSE NULL

\* the topic arrays the preferences endpoint is called with
TopicChoices == {{}, {8, 17}}

\* the topic arrays of the subscriptions registered before the first poll
InitialTopics == {{17}, {8, 17}}

NoSub == [id |-> 0, endpoint |-> NULL, email |-> NULL, topics |-> {}]

NoProposal == [id |-> 0, topic |-> 0]

VARIABLES
    feed,               \* governance feed as last returned: set of [id, topic]
    proposals_seen,     \* table proposals_seen: sequence of rows
    push_subscriptions, \* table push_subscriptions: set of rows
    notification_log,   \* table notification_log: bag of rows
    nextSubId,          \* next id given to a push_subscriptions row
    poll,               \* per invocation slot: position and locals of POST
    transport,          \* what the push service answers for each endpoint
    mailer,             \* whether the mail service accepts a message
    quiet,              \* history: a poll returned and nothing changed since
    flagged,            \* history: <<proposal, subscription>> matched when notified was set
    workflow_runs,      \* job listing of the job runner: set of runs
    queued,             \* dispatched jobs the listing does not show yet
    nextRunId,          \* next id the job runner gives to a run
    now,                \* wall clock, in minutes
    proposal_commentaries, \* table proposal_commentaries: ids with a commentary row
    coord,              \* per coordinator: position and locals of its POST
    governance,         \* what the governance canister answers get_proposal_info
    proposal_forum_threads, \* table proposal_forum_threads: set of rows
    forum_search_log,   \* table forum_search_log: the distinct rows
    resolver,           \* per invocation slot: position and locals of detect-forum-posts POST
    seen_columns,       \* table proposals_seen, by proposal_id: commit_hash, proposal_url,
                        \* lines_added, lines_removed
    pendingFetch,       \* proposals whose diff-stat task the poller has started
    backfill,           \* per invocation slot: position and locals of backfill-diff-stats POST
    request,            \* headers of the request the poll route has received last
    cronSecret          \* process.env.CRON_SECRET ("undefined" when not configured)

\* the poller's state
pollerVars == <<feed, proposals_seen, push_subscriptions, notification_log, nextSubId,
                poll, transport, mailer, quiet, flagged>>

\* the trigger coordinators' state
coordinatorVars == <<workflow_runs, queued, nextRunId, now, proposal_commentaries, coord>>

\* the forum resolver's state
forumVars == <<proposal_forum_threads, forum_search_log, resolver>>

\* the diff-stats backfill's state
backfillVars == <<seen_columns, pendingFetch, backfill>>

\* the request at the poll route and the deployment's secret
authVars == <<request, cronSecret>>

\* what the poller's handlers never touch
outsidePoller == <<coordinatorVars, governance, forumVars, backfillVars, authVars>>

\* what the coordinators' handlers never touch
outsideCoordinators == <<pollerVars, governance, forumVars, backfillVars, authVars>>

\* what the forum handlers never touch
outsideForum == <<pollerVars, governance, coordinatorVars, backfillVars, authVars>>

\* what the backfill never touches
outsideBackfill == <<pollerVars, governance, coordinatorVars, forumVars, authVars>>

vars == <<pollerVars, coordinatorVars, governance, forumVars, backfillVars, authVars>>

(* ------------------------- pure functions ----------------------------- *)

\* nns.ts filterNewProposals
filterNewProposals(proposals, tracked, seenProposalIds, minProposalId) ==
    {p \in proposals : /\ ~(p.id < minProposalId)
                       /\ p.topic \in tracked
                       /\ p.id \notin seenProposalIds}

\* route.ts: allTopics.size > 0 ? Array.from(allTopics) : Object.values(PROPOSAL_TOPICS)
trackedTopics(subscriptions) ==
    LET allTopics == UNION {sub.topics : sub \in subscriptions}
    IN  IF Cardinality(allTopics) > 0 THEN allTopics ELSE PROPOSAL_TOPICS

\* a subscription is served only if the proposal's topic is its one topic
wantsNotification_only(sub, proposal) == sub.topics = {proposal.topic}

wantsNotification_unset(sub, proposal) == sub.topics = {} \/ proposal.topic \in sub.topics

\* route.ts: sub.topics.includes(proposal.topic); topics is always an array here
\* (column default ARRAY[17], saveSubscription writes topics || [17])
wantsNotification(sub, proposal) == proposal.topic \in sub.topics

(* -------------------------- store operations -------------------------- *)

SeenIds(table) == {table[i].proposal_id : i \in DOMAIN table}

\* a plain insert: the primary key refuses the second row with an error
markProposalSeen_insert(table, proposalId, topic) ==
    IF proposalId \in {table[i].proposal_id : i \in DOMAIN table}
    THEN [rows |-> table, error |-> TRUE]
    ELSE [rows |-> Append(table, [proposal_id |-> proposalId, topic |-> topic,
                                  notified |-> FALSE]),
          error |-> FALSE]

\* db.ts markProposalSeen: upsert, onConflict proposal_id, ignoreDuplicates
markProposalSeen(table, proposalId, topic) ==
    IF proposalId \in SeenIds(table)
    THEN [rows |-> table, error |-> FALSE]
    ELSE [rows |-> Append(table, [proposal_id |-> proposalId, topic |-> topic,
                                  notified |-> FALSE]),
          error |-> FALSE]

\* db.ts getSeenProposalIds
getSeenProposalIds(table) == SeenIds(table)

\* the update matches no row
markProposalNotified_none(table, proposalId) == table

\* db.ts markProposalNotified: update notified = true where proposal_id = id
markProposalNotified(table, proposalId) ==
    [i \in DOMAIN table |->
        IF table[i].proposal_id = proposalId
        THEN [table[i] EXCEPT !.notified = TRUE]
        ELSE table[i]]

\* db.ts saveSubscription (upsert on endpoint; the row keeps its id)
saveSubscription(table, newId, endpoint, email) ==
    IF \E s \in table : s.endpoint = endpoint
    THEN {IF s.endpoint = endpoint
          THEN [s EXCEPT !.email = email, !.topics = DefaultTopics]
          ELSE s : s \in table}
    ELSE table \cup {[id |-> newId, endpoint |-> endpoint, email |-> email,
                      topics |-> DefaultTopics, last_success |-> NULL]}

\* db.ts getSubscriptions: select *; the handler reads id, endpoint, email, topics
getSubscriptions(table) ==
    {[id |-> s.id, endpoint |-> s.endpoint, email |-> s.email, topics |-> s.topics] :
        s \in table}

\* db.ts updateSubscriptionTopics
updateSubscriptionTopics(table, endpoint, topics) ==
    {IF s.endpoint = endpoint THEN [s EXCEPT !.topics = topics] ELSE s : s \in table}

\* the delete matches no row
deleteSubscription_keep(table, endpoint) == table

\* db.ts deleteSubscription
deleteSubscription(table, endpoint) == {s \in table : s.endpoint # endpoint}

\* db.ts updateSubscriptionSuccess
updateSubscriptionSuccess(table, endpoint) ==
    {IF s.endpoint = endpoint THEN [s EXCEPT !.last_success = "set"] ELSE s : s \in table}

\* db.ts logNotification: insert one row. email is history, not a column: the
\* fallback address the subscription held when the row was written
logNotification(log, proposalId, sub, channel, status, error) ==
    log (+) SetToBag({[proposal_id |-> proposalId, subscription_id |-> sub.id,
                       channel |-> channel, status |-> status, error |-> error,
                       email |-> sub.email]})

(* ----------------------- check-proposals POST ------------------------- *)

\* error: what the outer catch caught ("none" while there was nothing).
\* track (history): "clean" the invocation overlaps no other one and nothing was
\* changed from outside since it began; "second" clean, and begun after a clean
\* poll returned, with the feed unchanged; "dirty" otherwise
IdlePoll == [pc |-> "idle", proposals |-> {}, seenIds |-> {}, subscriptions |-> {},
             newProposals |-> {}, proposal |-> NoProposal, sub |-> NoSub,
             error |-> "none", track |-> "dirty"]

MaxOf(S) == CHOOSE x \in S : \A y \in S : y <= x
MinOf(S) == CHOOSE x \in S : \A y \in S : x <= y

\* for (const proposal of newProposals): the feed lists newest first
FirstProposal(newProposals) ==
    CHOOSE q \in newProposals : q.id = MaxOf({r.id : r \in newProposals})

RestProposals(rec) == {q \in rec.newProposals : q.id < rec.proposal.id}

\* for (const sub of subscriptions) { if (!wantsNotification) continue; ... }
WantingAfter(rec, proposal, afterId) ==
    {s \in rec.subscriptions : s.id > afterId /\ wantsNotification(s, proposal)}

FirstSub(S) == CHOOSE s \in S : s.id = MinOf({t.id : t \in S})

\* the loop header: the next subscription that wants this proposal, or the end
\* of the inner loop (markProposalNotified)
EnterSub(rec, proposal, afterId) ==
    LET W == WantingAfter(rec, proposal, afterId)
    IN  IF W = {}
        THEN [rec EXCEPT !.pc = "markProposalNotified", !.proposal = proposal,
                         !.sub = NoSub]
        ELSE [rec EXCEPT !.pc = "dispatch", !.proposal = proposal,
                         !.sub = FirstSub(W)]

Running(p) == poll[p].pc \notin {"idle", "done", "error", "unauthorized"}

Other(p) == 3 - p

Dirty(rec) == [rec EXCEPT !.track = "dirty"]

\* return NextResponse.json(...): "No new proposals" or "Processed"
Finish == [IdlePoll EXCEPT !.pc = "done"]

Abort_processed(error) == [IdlePoll EXCEPT !.pc = "done", !.error = error]

\* catch (error) { return 500 }
Abort(error) == [IdlePoll EXCEPT !.pc = "error", !.error = error]

\* a change made from outside the poller: no invocation is undisturbed
Disturbed == [q \in Polls |-> Dirty(poll[q])]

\* the values process.env.CRON_SECRET can have
Secrets == {"s3cret", "undefined"}

\* `Bearer ${cronSecret}`
Bearer(secret) == "Bearer " \o secret

\* the headers a request to the poll route can carry
Requests ==
    [authorization : {NULL, Bearer("s3cret"), Bearer("wrong"), Bearer("undefined")},
     upstashSignature : {NULL, "unverified"},
     vercelCron : {NULL, "1"}]

\* the request of the scheduler that holds the secret
CronRequest ==
    [authorization |-> Bearer("s3cret"), upstashSignature |-> NULL, vercelCron |-> NULL]

\* function verifyAuth(request)
verifyAuth(req, secret) ==
    \/ req.authorization = Bearer(secret)
    \/ req.upstashSignature # NULL
    \/ req.vercelCron # NULL

\* a request reaches the poll route
Arrive(requests) ==
    /\ \A p \in Polls : ~Running(p)
    /\ request' \in requests
    /\ UNCHANGED <<pollerVars, coordinatorVars, governance, forumVars, backfillVars,
                   cronSecret>>

\* if (!verifyAuth(request)) return 401
Unauthorized(p) ==
    /\ ~Running(p)
    /\ ~verifyAuth(request, cronSecret)
    /\ poll' = [poll EXCEPT ![p] = [IdlePoll EXCEPT !.pc = "unauthorized"]]
    /\ UNCHANGED <<feed, proposals_seen, push_subscriptions, notification_log,
                   nextSubId, transport, mailer, quiet, flagged>>
    /\ UNCHANGED outsidePoller

\* export async function POST(request)
POST(p) ==
    /\ UNCHANGED outsidePoller
    /\ ~Running(p)
    /\ verifyAuth(request, cronSecret)
    /\ p = 2 => Running(1)
    /\ poll' = [poll EXCEPT ![p] = [IdlePoll EXCEPT !.pc = "listProposals"]]
    /\ UNCHANGED <<feed, proposals_seen, push_subscriptions, notification_log,
                   nextSubId, transport, mailer, quiet, flagged>>

\* const proposals = await listProposals(100): the feed as it is now, which may
\* have grown since it was last read
ListProposals(p) ==
    /\ UNCHANGED outsidePoller
    /\ poll[p].pc = "listProposals"
    /\ \E f \in Feeds :
          /\ feed \subseteq f
          /\ feed' = f
          /\ poll' = [q \in Polls |->
                        IF q # p
                        THEN (IF Running(q) THEN Dirty(poll[q]) ELSE poll[q])
                        ELSE [poll[p] EXCEPT
                                !.pc = "getSeenProposalIds",
                                !.proposals = f,
                                !.track = IF Running(Other(p)) THEN "dirty"
                                          ELSE IF quiet /\ f = feed THEN "second"
                                          ELSE "clean"]]
    /\ quiet' = FALSE
    /\ UNCHANGED <<proposals_seen, push_subscriptions, notification_log,
                   nextSubId, transport, mailer, flagged>>

\* const seenIds = await getSeenProposalIds()
GetSeenProposalIds(p) ==
    /\ UNCHANGED outsidePoller
    /\ poll[p].pc = "getSeenProposalIds"
    /\ poll' = [poll EXCEPT ![p].pc = "getSubscriptions",
                            ![p].seenIds = getSeenProposalIds(proposals_seen)]
    /\ UNCHANGED <<feed, proposals_seen, push_subscriptions, notification_log,
                   nextSubId, transport, mailer, quiet, flagged>>

\* const subscriptions = await getSubscriptions(); trackedTopics; filterNewProposals;
\* if (newProposals.length === 0) return "No new proposals"
GetSubscriptions(p) ==
    /\ UNCHANGED outsidePoller
    /\ poll[p].pc = "getSubscriptions"
    /\ LET subs == getSubscriptions(push_subscriptions)
           new  == filterNewProposals(poll[p].proposals, trackedTopics(subs),
                                      poll[p].seenIds, MIN_PROPOSAL_ID)
           rec  == [poll[p] EXCEPT !.subscriptions = subs, !.newProposals = new,
                                   !.proposals = {}, !.seenIds = {}]
       IN  IF Cardinality(new) = 0
           THEN /\ poll' = [poll EXCEPT ![p] = Finish]
                /\ quiet' = (rec.track \in {"clean", "second"})
           ELSE /\ poll' = [poll EXCEPT ![p] = [rec EXCEPT !.pc = "markProposalSeen",
                                                          !.proposal = FirstProposal(new)]]
                /\ UNCHANGED quiet
    /\ UNCHANGED <<feed, proposals_seen, push_subscriptions, notification_log,
                   nextSubId, transport, mailer, flagged>>

\* await markProposalSeen(...); then the header of the inner loop
MarkProposalSeen(p) ==
    /\ UNCHANGED outsidePoller
    /\ poll[p].pc = "markProposalSeen"
    /\ LET rec == poll[p]
           res == markProposalSeen(proposals_seen, rec.proposal.id, rec.proposal.topic)
       IN  IF res.error
           THEN /\ poll' = [poll EXCEPT ![p] = Abort("duplicate")]
                /\ UNCHANGED proposals_seen
           ELSE /\ proposals_seen' = res.rows
                /\ poll' = [poll EXCEPT ![p] = EnterSub(rec, rec.proposal, 0)]
    /\ UNCHANGED <<feed, push_subscriptions, notification_log,
                   nextSubId, transport, mailer, quiet, flagged>>

(* ------------------- the per-subscription dispatch -------------------- *)

PushOutcomes == {"sent", "failed", "expired"}

\* the store calls of one loop iteration; each may throw
Sites == {"updateSubscriptionSuccess", "logSent", "deleteSubscription",
          "logFailed", "logEmail"}

\* the error text of the 'failed' row: "expired", or error.message
FailedText(error) == IF error = "SUBSCRIPTION_EXPIRED" THEN "expired" ELSE error

\* the fallback does not look at sub.email
emailFallback_always(st, proposalId, sub, emailSent, throws) ==
    IF "logEmail" \in throws THEN [st EXCEPT !.aborted = TRUE]
    ELSE [st EXCEPT !.log = logNotification(st.log, proposalId, sub, "email",
                                            IF emailSent THEN "sent" ELSE "failed",
                                            NULL)]

\* if (sub.email) { emailSent = await sendProposalNotificationEmail(...);
\*                  await logNotification(..., "email", emailSent ? "sent" : "failed") }
emailFallback(st, proposalId, sub, emailSent, throws) ==
    IF sub.email = NULL THEN st
    ELSE IF "logEmail" \in throws THEN [st EXCEPT !.aborted = TRUE]
    ELSE [st EXCEPT !.log = logNotification(st.log, proposalId, sub, "email",
                                            IF emailSent THEN "sent" ELSE "failed",
                                            NULL)]

\* the email fallback sits in the else branch of the SUBSCRIPTION_EXPIRED test
catchBlock_otherwise(st, proposalId, sub, error, emailSent, throws) ==
    LET afterDelete ==
            IF error # "SUBSCRIPTION_EXPIRED" THEN st
            ELSE IF "deleteSubscription" \in throws THEN [st EXCEPT !.aborted = TRUE]
            ELSE [st EXCEPT !.subs = {s \in st.subs : s.endpoint # sub.endpoint}]
        afterLog ==
            IF afterDelete.aborted THEN afterDelete
            ELSE IF "logFailed" \in throws THEN [afterDelete EXCEPT !.aborted = TRUE]
            ELSE [afterDelete EXCEPT
                    !.log = logNotification(afterDelete.log, proposalId, sub, "push",
                                            "failed", FailedText(error))]
    IN  IF afterLog.aborted \/ error = "SUBSCRIPTION_EXPIRED" THEN afterLog
        ELSE emailFallback(afterLog, proposalId, sub, emailSent, throws)

\* catch (error) { ... }: delete on SUBSCRIPTION_EXPIRED, log the failure, then
\* the email fallback. A throw in here leaves the loops for the outer catch.
catchBlock(st, proposalId, sub, error, emailSent, throws) ==
    LET afterDelete ==
            IF error # "SUBSCRIPTION_EXPIRED" THEN st
            ELSE IF "deleteSubscription" \in throws THEN [st EXCEPT !.aborted = TRUE]
            ELSE [st EXCEPT !.subs = deleteSubscription(st.subs, sub.endpoint)]
        afterLog ==
            IF afterDelete.aborted THEN afterDelete
            ELSE IF "logFailed" \in throws THEN [afterDelete EXCEPT !.aborted = TRUE]
            ELSE [afterDelete EXCEPT
                    !.log = logNotification(afterDelete.log, proposalId, sub, "push",
                                            "failed", FailedText(error))]
    IN  IF afterLog.aborted THEN afterLog
        ELSE emailFallback(afterLog, proposalId, sub, emailSent, throws)

\* try { success = await sendPushNotification(...); if (success) { sent++;
\*       await updateSubscriptionSuccess(...); await logNotification(..."sent") }
\*       else throw new Error("Push failed") } catch ...
\* outcome: what sendPushNotification does (true, false, throws SUBSCRIPTION_EXPIRED)
tryBlock(st, proposalId, sub, outcome, emailSent, throws) ==
    IF outcome = "expired"
    THEN catchBlock(st, proposalId, sub, "SUBSCRIPTION_EXPIRED", emailSent, throws)
    ELSE IF outcome = "failed"
    THEN catchBlock(st, proposalId, sub, "Push failed", emailSent, throws)
    ELSE IF "updateSubscriptionSuccess" \in throws
    THEN catchBlock(st, proposalId, sub, "db", emailSent, throws)
    ELSE LET updated == [st EXCEPT !.subs = updateSubscriptionSuccess(st.subs, sub.endpoint)]
         IN  IF "logSent" \in throws
             THEN catchBlock(updated, proposalId, sub, "db", emailSent, throws)
             ELSE [updated EXCEPT !.log = logNotification(updated.log, proposalId, sub,
                                                          "push", "sent", NULL)]

\* one iteration of for (const sub of subscriptions) for a subscription that
\* wants the proposal; throws: the store calls that throw in this iteration,
\* among those of sites
Dispatch(p, sites) ==
    /\ UNCHANGED outsidePoller
    /\ poll[p].pc = "dispatch"
    /\ \E throws \in SUBSET sites :
          LET rec == poll[p]
              st  == tryBlock([subs |-> push_subscriptions, log |-> notification_log,
                               aborted |-> FALSE],
                              rec.proposal.id, rec.sub, transport[rec.sub.endpoint],
                              mailer, throws)
          IN  /\ push_subscriptions' = st.subs
              /\ notification_log' = st.log
              /\ poll' = [poll EXCEPT ![p] =
                            IF st.aborted THEN Abort("thrown")
                            ELSE EnterSub(rec, rec.proposal, rec.sub.id)]
    /\ UNCHANGED <<feed, proposals_seen, nextSubId, transport, mailer, quiet, flagged>>

\* the subscriptions of the invocation's list whose topic set holds the topic
Matched(rec) ==
    {<<rec.proposal.id, s.id>> : s \in {t \in rec.subscriptions :
                                          rec.proposal.topic \in t.topics}}

\* await markProposalNotified(proposalIdStr); then the next proposal, or "Processed"
MarkProposalNotified(p) ==
    /\ UNCHANGED outsidePoller
    /\ poll[p].pc = "markProposalNotified"
    /\ LET rec  == poll[p]
           rest == RestProposals(rec)
       IN  /\ proposals_seen' = markProposalNotified(proposals_seen, rec.proposal.id)
           /\ flagged' = flagged \cup Matched(rec)
           /\ IF rest = {}
              THEN /\ poll' = [poll EXCEPT ![p] = Finish]
                   /\ quiet' = (rec.track \in {"clean", "second"})
              ELSE /\ poll' = [poll EXCEPT ![p] = [rec EXCEPT !.pc = "markProposalSeen",
                                                             !.proposal = FirstProposal(rest)]]
                   /\ UNCHANGED quiet
    /\ UNCHANGED <<feed, push_subscriptions, notification_log, nextSubId,
                   transport, mailer>>

\* an awaited call outside the inner loop throws (the feed or the store is
\* unreachable): the outer catch answers 500
Throw(p) ==
    /\ UNCHANGED outsidePoller
    /\ poll[p].pc \in {"listProposals", "getSeenProposalIds", "getSubscriptions",
                       "markProposalSeen", "markProposalNotified"}
    /\ poll' = [poll EXCEPT ![p] = Abort("thrown")]
    /\ UNCHANGED <<feed, proposals_seen, push_subscriptions, notification_log,
                   nextSubId, transport, mailer, quiet, flagged>>

(* --------------------------- the environment -------------------------- *)

\* subscribe POST: saveSubscription(endpoint, p256dh, auth, email)
Subscribe(endpoint) ==
    /\ UNCHANGED outsidePoller
    /\ \/ \E s \in push_subscriptions : s.endpoint = endpoint
       \/ nextSubId <= MaxSubs
    /\ push_subscriptions' = saveSubscription(push_subscriptions, nextSubId, endpoint,
                                              EmailOf(endpoint))
    /\ nextSubId' = IF \E s \in push_subscriptions : s.endpoint = endpoint
                    THEN nextSubId ELSE nextSubId + 1
    /\ poll' = Disturbed
    /\ quiet' = FALSE
    /\ UNCHANGED <<feed, proposals_seen, notification_log, transport, mailer, flagged>>

\* preferences POST: updateSubscriptionTopics(endpoint, topics)
UpdateTopics(endpoint) ==
    /\ UNCHANGED outsidePoller
    /\ \E s \in push_subscriptions : s.endpoint = endpoint
    /\ \E topics \in TopicChoices :
          push_subscriptions' = updateSubscriptionTopics(push_subscriptions, endpoint, topics)
    /\ poll' = Disturbed
    /\ quiet' = FALSE
    /\ UNCHANGED <<feed, proposals_seen, notification_log, nextSubId, transport,
                   mailer, flagged>>

\* subscribe DELETE: deleteSubscription(endpoint)
Unsubscribe(endpoint) ==
    /\ UNCHANGED outsidePoller
    /\ \E s \in push_subscriptions : s.endpoint = endpoint
    /\ push_subscriptions' = deleteSubscription(push_subscriptions, endpoint)
    /\ poll' = Disturbed
    /\ quiet' = FALSE
    /\ UNCHANGED <<feed, proposals_seen, notification_log, nextSubId, transport,
                   mailer, flagged>>

(* --------------------------- specification ---------------------------- *)

(* ----------------------- trigger coordinators ------------------------- *)

\* number of runs the job runner accepts
MaxRuns == 3

\* number of clock steps
MaxTicks == 1

\* github.ts hasRecentWorkflowRun: default trailing window, in minutes
WithinMinutes == 10

\* trigger-commentary POST: trailing window it passes to hasRecentCommentaryRun;
\* the clock moves in steps of this length
CommentaryWithinMinutes == 30

\* both coordinators: getRecentProposals(20)
RecentLimit == 20

VERIFICATION == "trigger-verification"
COMMENTARY == "trigger-commentary"
Coordinators == {VERIFICATION, COMMENTARY}

Conclusions == {"success", "failure"}

\* the proposals the store holds when the coordinators run
RecentIds == ProposalIds

\* what the governance canister may hold for a proposal: the target canister and
\* the wasm hash of an upgrade, or neither
ProposalDetails ==
    {[canisterId |-> "canister", expectedWasmHash |-> NULL],
     [canisterId |-> NULL, expectedWasmHash |-> "hash"],
     [canisterId |-> NULL, expectedWasmHash |-> NULL]}

\* the even ids are upgrades (topic 17 in the feed), the odd ids are not
Governances ==
    {g \in [RecentIds -> ProposalDetails] :
        \A i \in RecentIds : (i % 2 = 0) <=> (g[i].canisterId # NULL \/ g[i].expectedWasmHash # NULL)}

\* db getRecentProposals: the ids of the limit rows with the highest ids
getRecentProposals(table, limit) ==
    {i \in SeenIds(table) : Cardinality({j \in SeenIds(table) : j > i}) < limit}

\* nns.ts getProposal: the detail, or nothing (null) for a proposal the canister
\* does not hold
getProposal(canister, proposalId) ==
    IF proposalId \in DOMAIN canister THEN {canister[proposalId]} ELSE {}

\* both coordinators: !!(expectedWasmHash || canisterId)
isUpgradeProposal(proposalDetail) ==
    \E d \in proposalDetail : d.expectedWasmHash # NULL \/ d.canisterId # NULL

\* the display title a run of a workflow gets for a proposal
DisplayTitle(workflow, proposalId) ==
    IF workflow = "verify.yml" THEN <<"Verify Proposal #", proposalId>>
                               ELSE <<"Commentary for Proposal #", proposalId>>

\* a run as the job runner creates it
NewRun(id, workflow, proposalId, createdAt) ==
    [id |-> id, display_title |-> DisplayTitle(workflow, proposalId),
     conclusion |-> NULL, created_at |-> createdAt]

\* github.ts getVerificationRunForProposal (the revision the coordinator imports):
\* the matching runs of the listing, of any status and age
getVerificationRunForProposal(runs, proposalId) ==
    {r \in runs : r.display_title = <<"Verify Proposal #", proposalId>>}

\* github.ts hasSuccessfulVerification
hasSuccessfulVerification(runs, proposalId) ==
    \E r \in runs : /\ r.display_title = <<"Verify Proposal #", proposalId>>
                    /\ r.conclusion = "success"

\* github.ts hasRecentWorkflowRun
hasRecentWorkflowRun(runs, proposalId, time, withinMinutes) ==
    \E r \in runs : /\ r.display_title[2] = proposalId
                    /\ r.created_at > time - withinMinutes

\* any recent run for the proposal counts, of whichever workflow
hasRecentCommentaryRun_any(runs, proposalId, time, withinMinutes) ==
    \E r \in runs : /\ r.display_title[2] = proposalId
                    /\ r.created_at > time - withinMinutes

\* github.ts hasRecentCommentaryRun
hasRecentCommentaryRun(runs, proposalId, time, withinMinutes) ==
    \E r \in runs : /\ r.display_title = <<"Commentary for Proposal #", proposalId>>
                    /\ r.created_at > time - withinMinutes

\* db getCommentaryCount
getCommentaryCount(table, proposalId) == IF proposalId \in table THEN 1 ELSE 0

\* triggerWorkflow / triggerCommentaryWorkflow: the dispatch request; accepted, the
\* job runner creates a run the listing shows later
triggerWorkflow(st, workflowId, proposalId, accepted, time) ==
    IF accepted
    THEN [queued |-> st.queued \cup {NewRun(st.nextRunId, workflowId, proposalId, time)},
          nextRunId |-> st.nextRunId + 1]
    ELSE st

\* answered (history): whether the listing request of the iteration that is
\* about to trigger was answered
IdleCoord == [pc |-> "idle", proposals |-> {}, proposal |-> 0, triggered |-> {},
              skipped |-> {}, failed |-> {}, refused |-> {}, answered |-> TRUE]

Busy(c) == coord[c].pc \in {"loop", "trigger"}

\* the for loop goes to its next proposal, or the handler returns its summary
Continue(rec) ==
    IF rec.proposals = {} THEN [rec EXCEPT !.pc = "done", !.proposal = 0, !.answered = TRUE]
                          ELSE [rec EXCEPT !.pc = "loop", !.proposal = 0, !.answered = TRUE]

Skip(rec, proposalId, reason) ==
    Continue([rec EXCEPT !.proposals = @ \ {proposalId},
                         !.skipped = @ \cup {[proposalId |-> proposalId, reason |-> reason]}])

InternalServerError == [IdleCoord EXCEPT !.pc = "error"]

\* both coordinators, POST up to the loop: authorization, getRecentProposals
CoordinatorPOST(c) ==
    /\ ~Busy(c)
    /\ \E authorized \in BOOLEAN, thrown \in BOOLEAN :
          coord' = [coord EXCEPT ![c] =
                      IF ~authorized THEN [IdleCoord EXCEPT !.pc = "unauthorized"]
                      ELSE IF thrown THEN InternalServerError
                      ELSE Continue([IdleCoord EXCEPT
                                !.proposals = getRecentProposals(proposals_seen, RecentLimit)])]
    /\ UNCHANGED <<outsideCoordinators, workflow_runs, queued, nextRunId, now, proposal_commentaries>>

\* trigger-verification POST, one iteration up to the trigger: the skip checks
VerificationExamine ==
    /\ coord[VERIFICATION].pc = "loop"
    /\ LET rec  == coord[VERIFICATION]
           id   == MaxOf(rec.proposals)
       IN \E listed \in BOOLEAN, thrown \in BOOLEAN :
             coord' = [coord EXCEPT ![VERIFICATION] =
                 IF id < MIN_PROPOSAL_ID THEN Skip(rec, id, NULL)
                 ELSE IF thrown THEN InternalServerError
                 ELSE IF getProposal(governance, id) = {} THEN Skip(rec, id, NULL)
                 ELSE IF ~isUpgradeProposal(getProposal(governance, id)) THEN Skip(rec, id, NULL)
                 ELSE IF getVerificationRunForProposal(
                            IF listed THEN workflow_runs ELSE {}, id) # {}
                      THEN Skip(rec, id, NULL)
                 ELSE [rec EXCEPT !.pc = "trigger", !.proposal = id,
                                  !.proposals = @ \ {id}, !.answered = listed]]
    /\ UNCHANGED <<outsideCoordinators, workflow_runs, queued, nextRunId, now, proposal_commentaries>>

\* trigger-verification POST: result accounting after triggerVerificationWorkflows
verificationAccounting(rec, proposalId, verify, commentary) ==
    IF verify \/ commentary
    THEN [rec EXCEPT
            !.triggered = @ \cup {proposalId},
            !.failed = @ \cup {[proposalId |-> proposalId,
                                reason |-> "verify workflow failed to trigger"]
                                  : x \in {1} \ {IF verify THEN 1 ELSE 0}}
                         \cup {[proposalId |-> proposalId,
                                reason |-> "commentary workflow failed to trigger"]
                                  : x \in {1} \ {IF commentary THEN 1 ELSE 0}}]
    ELSE rec

\* trigger-verification POST, rest of the iteration: triggerVerificationWorkflows
\* (both dispatches) and the accounting
VerificationTrigger ==
    /\ coord[VERIFICATION].pc = "trigger"
    /\ LET rec == coord[VERIFICATION]
           id  == rec.proposal
       IN \E verify \in BOOLEAN, commentary \in BOOLEAN :
             LET st0 == [queued |-> queued, nextRunId |-> nextRunId]
                 st1 == triggerWorkflow(st0, "verify.yml", id, verify, now)
                 st2 == triggerWorkflow(st1, "commentary.yml", id, commentary, now)
                 out == verificationAccounting(rec, id, verify, commentary)
             IN /\ st2.nextRunId <= MaxRuns + 1
                /\ queued' = st2.queued
                /\ nextRunId' = st2.nextRunId
                /\ coord' = [coord EXCEPT ![VERIFICATION] =
                      Continue([out EXCEPT !.refused = @
                          \cup {<<id, "verify.yml">> : x \in {1} \ {IF verify THEN 1 ELSE 0}}
                          \cup {<<id, "commentary.yml">> : x \in {1} \ {IF commentary THEN 1 ELSE 0}}])]
    /\ UNCHANGED <<outsideCoordinators, workflow_runs, now, proposal_commentaries>>

\* trigger-commentary POST, one iteration up to the trigger: the skip checks
CommentaryExamine ==
    /\ coord[COMMENTARY].pc = "loop"
    /\ LET rec  == coord[COMMENTARY]
           id   == MaxOf(rec.proposals)
       IN \E listed \in BOOLEAN, thrown \in BOOLEAN :
             coord' = [coord EXCEPT ![COMMENTARY] =
                 IF id < MIN_PROPOSAL_ID THEN Skip(rec, id, "below minimum proposal ID")
                 ELSE IF thrown THEN InternalServerError
                 ELSE IF getProposal(governance, id) = {}
                      THEN Skip(rec, id, "could not fetch proposal details")
                 ELSE IF ~isUpgradeProposal(getProposal(governance, id))
                      THEN Skip(rec, id, "not an upgrade proposal")
                 ELSE IF getCommentaryCount(proposal_commentaries, id) > 0
                      THEN Skip(rec, id, "commentary already exists")
                 ELSE IF hasRecentCommentaryRun(IF listed THEN workflow_runs ELSE {},
                                                id, now, CommentaryWithinMinutes)
                      THEN Skip(rec, id, "recent commentary run exists")
                 ELSE [rec EXCEPT !.pc = "trigger", !.proposal = id,
                                  !.proposals = @ \ {id}, !.answered = listed]]
    /\ UNCHANGED <<outsideCoordinators, workflow_runs, queued, nextRunId, now, proposal_commentaries>>

\* trigger-commentary POST, rest of the iteration: triggerCommentaryWorkflow and
\* the accounting
CommentaryTrigger ==
    /\ coord[COMMENTARY].pc = "trigger"
    /\ LET rec == coord[COMMENTARY]
           id  == rec.proposal
       IN \E success \in BOOLEAN :
             LET st == triggerWorkflow([queued |-> queued, nextRunId |-> nextRunId],
                                       "commentary.yml", id, success, now)
             IN /\ st.nextRunId <= MaxRuns + 1
                /\ queued' = st.queued
                /\ nextRunId' = st.nextRunId
                /\ coord' = [coord EXCEPT ![COMMENTARY] = Continue(
                      IF success
                      THEN [rec EXCEPT !.triggered = @ \cup {id}]
                      ELSE [rec EXCEPT
                              !.failed = @ \cup {[proposalId |-> id,
                                                  reason |-> "failed to trigger workflow"]},
                              !.refused = @ \cup {<<id, "commentary.yml">>}])]
    /\ UNCHANGED <<outsideCoordinators, workflow_runs, now, proposal_commentaries>>

\* the job runner: the listing starts to show a dispatched run
Appear ==
    /\ \E r \in queued :
          /\ queued' = queued \ {r}
          /\ workflow_runs' = workflow_runs \cup {r}
    /\ UNCHANGED <<outsideCoordinators, nextRunId, now, proposal_commentaries, coord>>

\* the job runner: a run completes; a successful commentary run has saved its
\* commentary (db saveCommentary)
Complete ==
    /\ \E r \in workflow_runs, conclusion \in Conclusions :
          /\ r.conclusion = NULL
          /\ workflow_runs' = (workflow_runs \ {r}) \cup {[r EXCEPT !.conclusion = conclusion]}
          /\ proposal_commentaries' =
                IF r.display_title[1] = "Commentary for Proposal #" /\ conclusion = "success"
                THEN proposal_commentaries \cup {r.display_title[2]}
                ELSE proposal_commentaries
    /\ UNCHANGED <<outsideCoordinators, queued, nextRunId, now, coord>>

\* time passes; an invocation takes far less than one step of the clock
Tick ==
    /\ \A c \in Coordinators : ~Busy(c)
    /\ now < MaxTicks * CommentaryWithinMinutes
    /\ now' = now + CommentaryWithinMinutes
    /\ UNCHANGED <<outsideCoordinators, workflow_runs, queued, nextRunId, proposal_commentaries, coord>>

\* no coordinator has run and the job runner has no runs
InitCoordinators ==
    /\ workflow_runs = {}
    /\ queued = {}
    /\ nextRunId = 1
    /\ now = 0
    /\ proposal_commentaries = {}
    /\ coord = [c \in Coordinators |-> IdleCoord]

(* --------------------------- forum resolver --------------------------- *)

\* number of persisted proposals when the resolver runs
MaxLinked == 1

\* detect-forum-posts: MAX_PROPOSALS_PER_REQUEST
MAX_PROPOSALS_PER_REQUEST == 3

\* detect-forum-posts POST: getRecentProposals(100)
ForumRecentLimit == 100

Resolvers == {1, 2}

\* the threads a forum search may select, and a link to somewhere else
ForumUrls == {"https://forum.dfinity.org/t/a/1", "https://forum.dfinity.org/t/b/2"}
OtherUrl == "https://example.org/t/1"

\* forum-links POST: forumUrl.includes("forum.dfinity.org")
IsDfinityForum(forumUrl) == forumUrl \in ForumUrls

\* forum-links POST: isCanonical of the request body, absent or a boolean
CanonicalChoices == {NULL, "true", "false"}

\* the upsert replaces every thread of the proposal
addForumThread_exclusive(table, proposalId, forumUrl, isCanonical) ==
    {u \in table : u.proposal_id # proposalId}
    \cup {[proposal_id |-> proposalId, forum_url |-> forumUrl,
           is_canonical |-> (isCanonical = "true")]}

\* db addForumThread: upsert on (proposal_id, forum_url), is_canonical: isCanonical || false
addForumThread(table, proposalId, forumUrl, isCanonical) ==
    {u \in table : ~(u.proposal_id = proposalId /\ u.forum_url = forumUrl)}
    \cup {[proposal_id |-> proposalId, forum_url |-> forumUrl,
           is_canonical |-> (isCanonical = "true")]}

\* db removeForumThread
removeForumThread(table, proposalId, forumUrl) ==
    {u \in table : ~(u.proposal_id = proposalId /\ u.forum_url = forumUrl)}

\* db getProposalsWithoutCanonicalForum
getProposalsWithoutCanonicalForum(table, proposalIds) ==
    {i \in proposalIds : ~\E u \in table : u.proposal_id = i /\ u.is_canonical}

\* db logForumSearch
logForumSearch(log, proposalId, selectedUrl, status) ==
    log \cup {[proposal_id |-> proposalId, status |-> status]}

\* needsForumSearch.slice(0, n), the ids coming in descending order
Slice(ids, n) == {i \in ids : Cardinality({j \in ids : j > i}) < n}

\* logged (history): the forum_search_log rows this invocation has inserted
IdleResolver == [pc |-> "idle", toProcess |-> {}, found |-> {}, notFound |-> {},
                 errors |-> {}, logged |-> <<>>]

Resolving(r) == resolver[r].pc = "loop"

\* the for loop goes to its next proposal, or the handler returns its summary
NextProposal(rec) ==
    IF rec.toProcess = {} THEN [rec EXCEPT !.pc = "done"] ELSE [rec EXCEPT !.pc = "loop"]

\* detect-forum-posts POST up to the loop: authorization, cookies, the proposals
\* without a canonical thread
ResolverPOST(r, answers) ==
    /\ ~Resolving(r)
    /\ r = 2 => Resolving(1)
    /\ \E answer \in answers :
          resolver' = [resolver EXCEPT ![r] =
              IF answer # "ok" THEN [IdleResolver EXCEPT !.pc = answer]
              ELSE NextProposal([IdleResolver EXCEPT !.toProcess =
                      Slice(getProposalsWithoutCanonicalForum(proposal_forum_threads,
                                getRecentProposals(proposals_seen, ForumRecentLimit)),
                            MAX_PROPOSALS_PER_REQUEST)])]
    /\ UNCHANGED <<outsideForum, proposal_forum_threads, forum_search_log>>

\* the store calls of one loop iteration; each may throw
ForumSites == {"addForumThread", "logForumSearch", "logError"}

\* catch (error) { results.errors.push(...); await logForumSearch(..., "error") }:
\* a throw in here leaves the loop for the outer catch
searchCatch(st, id, throws) ==
    LET pushed == [st EXCEPT !.rec.errors = @ \cup {id}]
    IN  IF "logError" \in throws THEN [pushed EXCEPT !.aborted = TRUE]
        ELSE [pushed EXCEPT !.log = logForumSearch(@, id, NULL, "error"),
                            !.rec.logged = Append(@, [proposal_id |-> id, status |-> "error"])]

\* try { result = await findForumThread(...); if (result.found) { addForumThread as
\* canonical; found.push; logForumSearch "success" } else { notFound.push;
\* logForumSearch "no_results" } } catch ...
\* url: the thread findForumThread returns, NULL when it finds none
searchTry(st, id, url, throws) ==
    IF url # NULL
    THEN IF "addForumThread" \in throws THEN searchCatch(st, id, throws)
         ELSE LET saved == [st EXCEPT !.threads = addForumThread(@, id, url, "true"),
                                      !.rec.found = @ \cup {id}]
              IN  IF "logForumSearch" \in throws THEN searchCatch(saved, id, throws)
                  ELSE [saved EXCEPT
                          !.log = logForumSearch(@, id, url, "success"),
                          !.rec.logged = Append(@, [proposal_id |-> id, status |-> "success"])]
    ELSE LET noted == [st EXCEPT !.rec.notFound = @ \cup {id}]
         IN  IF "logForumSearch" \in throws THEN searchCatch(noted, id, throws)
             ELSE [noted EXCEPT
                     !.log = logForumSearch(@, id, NULL, "no_results"),
                     !.rec.logged = Append(@, [proposal_id |-> id, status |-> "no_results"])]

\* detect-forum-posts POST, one iteration of the loop; throws: the store calls
\* that throw in this iteration, among those of sites
ResolverProcess(r, sites) ==
    /\ resolver[r].pc = "loop"
    /\ \E url \in ForumUrls \cup {NULL}, throws \in SUBSET sites :
          LET id == MaxOf(resolver[r].toProcess)
              st == searchTry([threads |-> proposal_forum_threads,
                               log |-> forum_search_log,
                               rec |-> [resolver[r] EXCEPT !.toProcess = @ \ {id}],
                               aborted |-> FALSE],
                              id, url, throws)
          IN  /\ proposal_forum_threads' = st.threads
              /\ forum_search_log' = st.log
              /\ resolver' = [resolver EXCEPT ![r] =
                                IF st.aborted THEN [st.rec EXCEPT !.pc = "error"]
                                ELSE NextProposal(st.rec)]
    /\ UNCHANGED outsideForum

\* forum-links POST: a thread added by hand; a request that is not authorized,
\* lacks a field, links elsewhere or fails in the store changes nothing
ForumLinksPOST ==
    /\ \E proposalId \in SeenIds(proposals_seen) \cup {NoProposal.id},
          forumUrl \in ForumUrls \cup {OtherUrl}, isCanonical \in CanonicalChoices :
          proposal_forum_threads' =
              IF proposalId # NoProposal.id /\ IsDfinityForum(forumUrl)
              THEN addForumThread(proposal_forum_threads, proposalId, forumUrl, isCanonical)
              ELSE proposal_forum_threads
    /\ UNCHANGED <<outsideForum, forum_search_log, resolver>>

\* forum-links DELETE
ForumLinksDELETE ==
    /\ \E proposalId \in SeenIds(proposals_seen) \cup {NoProposal.id},
          forumUrl \in ForumUrls \cup {OtherUrl} :
          proposal_forum_threads' =
              IF proposalId # NoProposal.id
              THEN removeForumThread(proposal_forum_threads, proposalId, forumUrl)
              ELSE proposal_forum_threads
    /\ UNCHANGED <<outsideForum, forum_search_log, resolver>>

\* no thread is linked and the resolver has not run
InitForum ==
    /\ proposal_forum_threads = {}
    /\ forum_search_log = {}
    /\ resolver = [r \in Resolvers |-> IdleResolver]

(* -------------------------- diff-stats backfill ----------------------- *)

\* lines_added / lines_removed not set (SQL null)
UNRESOLVED == -1

\* backfill-diff-stats POST: default of the batch parameter, and its cap
DefaultBatch == 20
BatchCap == 100

\* the batch parameters a request may carry
Batches == {1, DefaultBatch}

\* the passes follow each other
Backfills == {1}

GitHubUrl == "https://github.com/dfinity/ic/tree/abc"
DashboardUrl == "https://dashboard.internetcomputer.org/proposal"

\* proposalUrl?.includes("github.com")
IsGitHubUrl(proposalUrl) == proposalUrl = GitHubUrl

\* what a resolution step may answer: nothing, or the stats of a diff
GitHubAnswers == {{}, {[additions |-> 10, deletions |-> 2]}}

\* db updateProposalDiffStats
updateProposalDiffStats(table, proposalId, linesAdded, linesRemoved) ==
    [i \in DOMAIN table |->
        IF i = proposalId
        THEN [table[i] EXCEPT !.lines_added = linesAdded, !.lines_removed = linesRemoved]
        ELSE table[i]]

getProposalsNeedingDiffStats_all(table, limit) ==
    Slice({i \in DOMAIN table :
              table[i].commit_hash # NULL \/ IsGitHubUrl(table[i].proposal_url)}, limit)

\* db getProposalsNeedingDiffStats: lines_added is null, and a commit hash or a
\* url of the code host; the limit rows with the highest ids
getProposalsNeedingDiffStats(table, limit) ==
    Slice({i \in DOMAIN table :
              /\ table[i].lines_added = UNRESOLVED
              /\ table[i].commit_hash # NULL \/ IsGitHubUrl(table[i].proposal_url)}, limit)

\* forced refresh: the candidates whatever their line counts
getProposalsForRefresh(table, limit) ==
    Slice({i \in DOMAIN table :
              table[i].commit_hash # NULL \/ IsGitHubUrl(table[i].proposal_url)}, limit)

\* the three resolution steps in order: the commits of the proposal text, the
\* proposal url if it is of the code host, the commit hash if there is one
resolveDiffStats(row, fromText, fromUrl, fromHash) ==
    IF fromText # {} THEN fromText
    ELSE IF IsGitHubUrl(row.proposal_url) /\ fromUrl # {} THEN fromUrl
    ELSE IF row.commit_hash # NULL THEN fromHash
    ELSE {}

storeDiffStats_skip(table, proposalId, diffStats) ==
    IF diffStats # {}
    THEN LET d == CHOOSE x \in diffStats : TRUE
         IN updateProposalDiffStats(table, proposalId, d.additions, d.deletions)
    ELSE table

\* backfill-diff-stats POST: the resolved stats, or 0/0 when nothing resolved
storeDiffStats(table, proposalId, diffStats) ==
    IF diffStats # {}
    THEN LET d == CHOOSE x \in diffStats : TRUE
         IN updateProposalDiffStats(table, proposalId, d.additions, d.deletions)
    ELSE updateProposalDiffStats(table, proposalId, 0, 0)

IdleBackfill == [pc |-> "idle", proposals |-> {}, forced |-> FALSE, resolvedAtStart |-> {},
                 processed |-> 0, success |-> 0, failed |-> 0, details |-> {}]

Backfilling(b) == backfill[b].pc = "loop"

\* the ids whose line counts are set
Resolved(table) == {i \in DOMAIN table : table[i].lines_added # UNRESOLVED}

\* backfill-diff-stats POST up to the loop: authorization, parameters, candidates
BackfillPOST(b, answers, forces) ==
    /\ ~Backfilling(b)
    /\ \E answer \in answers, batch \in Batches, force \in forces :
          LET batchSize == IF batch < BatchCap THEN batch ELSE BatchCap
              proposals == IF force THEN getProposalsForRefresh(seen_columns, batchSize)
                                    ELSE getProposalsNeedingDiffStats(seen_columns, batchSize)
          IN backfill' = [backfill EXCEPT ![b] =
                IF answer # "ok" THEN [IdleBackfill EXCEPT !.pc = answer]
                ELSE [IdleBackfill EXCEPT
                        !.pc = IF proposals = {} THEN "done" ELSE "loop",
                        !.proposals = proposals, !.forced = force,
                        !.resolvedAtStart = Resolved(seen_columns)]]
    /\ UNCHANGED <<outsideBackfill, seen_columns, pendingFetch>>

\* backfill-diff-stats POST, one iteration: the resolution steps, the write, the
\* accounting; an error thrown in it is caught and counted
BackfillProcess(b, thrown) ==
    /\ backfill[b].pc = "loop"
    /\ LET rec  == backfill[b]
           id   == MaxOf(rec.proposals)
           rest == [rec EXCEPT !.proposals = @ \ {id}, !.processed = @ + 1,
                               !.pc = IF rec.proposals = {id} THEN "done" ELSE "loop"]
       IN \/ \E fromText \in GitHubAnswers, fromUrl \in GitHubAnswers,
                fromHash \in GitHubAnswers :
               LET diffStats == resolveDiffStats(seen_columns[id], fromText, fromUrl, fromHash)
               IN /\ seen_columns' = storeDiffStats(seen_columns, id, diffStats)
                  /\ backfill' = [backfill EXCEPT ![b] =
                        IF diffStats # {}
                        THEN [rest EXCEPT !.success = @ + 1,
                                 !.details = @ \cup {[proposalId |-> id, status |-> "success"]}]
                        ELSE [rest EXCEPT
                                 !.details = @ \cup {[proposalId |-> id, status |-> "no_data"]}]]
          \/ /\ thrown
             /\ backfill' = [backfill EXCEPT ![b] =
                   [rest EXCEPT !.failed = @ + 1,
                       !.details = @ \cup {[proposalId |-> id, status |-> "failed"]}]]
             /\ UNCHANGED seen_columns
    /\ UNCHANGED <<outsideBackfill, pendingFetch>>

\* check-proposals POST, the task it starts for a new proposal and does not
\* await: the resolution steps, and the write if one of them answered
FetchDiffStats ==
    /\ \E id \in pendingFetch :
          /\ pendingFetch' = pendingFetch \ {id}
          /\ \E fromText \in GitHubAnswers, fromUrl \in GitHubAnswers,
                fromHash \in GitHubAnswers :
               LET diffStats == resolveDiffStats(seen_columns[id], fromText, fromUrl, fromHash)
               IN seen_columns' =
                     IF diffStats # {}
                     THEN LET d == CHOOSE x \in diffStats : TRUE
                          IN updateProposalDiffStats(seen_columns, id, d.additions, d.deletions)
                     ELSE seen_columns
    /\ UNCHANGED <<outsideBackfill, backfill>>

\* the rows the poller has persisted, none with line counts yet
SeenColumns(ids) ==
    [ids -> [commit_hash : {NULL, "abc"}, proposal_url : {DashboardUrl, GitHubUrl},
             lines_added : {UNRESOLVED}, lines_removed : {UNRESOLVED}]]

\* no backfill has run; the poller's tasks for the proposals with a commit hash
\* or a url of the code host are under way
InitBackfill(ids) ==
    /\ seen_columns \in SeenColumns(ids)
    /\ pendingFetch = {i \in ids : seen_columns[i].commit_hash # NULL
                                     \/ IsGitHubUrl(seen_columns[i].proposal_url)}
    /\ backfill = [b \in Backfills |-> IdleBackfill]

(* ------------------------- specifications ----------------------------- *)

\* the registries the first poll can find: both endpoints subscribed (rows 1
\* and 2), each with one of InitialTopics
InitialRegistries ==
    {{[id |-> 1, endpoint |-> "e1", email |-> EmailOf("e1"), topics |-> t1,
       last_success |-> NULL],
      [id |-> 2, endpoint |-> "e2", email |-> EmailOf("e2"), topics |-> t2,
       last_success |-> NULL]} : t1 \in InitialTopics, t2 \in InitialTopics}

Init ==
    /\ feed = {}
    /\ proposals_seen = <<>>
    /\ push_subscriptions \in InitialRegistries
    /\ notification_log = EmptyBag
    /\ nextSubId = 3
    /\ transport \in [Endpoints -> PushOutcomes]
    /\ mailer \in BOOLEAN
    /\ poll = [p \in Polls |-> IdlePoll]
    /\ quiet = FALSE
    /\ flagged = {}
    /\ request = CronRequest
    /\ cronSecret = "s3cret"
    /\ InitCoordinators
    /\ governance = [i \in {} |-> NULL]
    /\ InitForum
    /\ InitBackfill({})

\* one invocation at a time; any store or feed call may throw; endpoints
\* subscribe again while it runs
Next ==
    \/ POST(1)
    \/ ListProposals(1)
    \/ GetSeenProposalIds(1)
    \/ GetSubscriptions(1)
    \/ MarkProposalSeen(1)
    \/ Dispatch(1, Sites)
    \/ MarkProposalNotified(1)
    \/ Throw(1)
    \/ \E e \in Endpoints : Subscribe(e)

Spec == Init /\ [][Next]_vars

\* two invocations overlap; the feed and the store answer every call
NextOverlap ==
    \E p \in Polls :
       \/ POST(p)
       \/ ListProposals(p)
       \/ GetSeenProposalIds(p)
       \/ GetSubscriptions(p)
       \/ MarkProposalSeen(p)
       \/ Dispatch(p, {})
       \/ MarkProposalNotified(p)

SpecOverlap == Init /\ [][NextOverlap]_vars

\* the polls have persisted the proposals first .. last and are at rest
StoreAtRest(first, last) ==
    /\ feed = {}
    /\ proposals_seen = [i \in 1 .. (last - first + 1) |->
                            [proposal_id |-> first + i - 1, topic |-> 17, notified |-> TRUE]]
    /\ push_subscriptions = {}
    /\ notification_log = EmptyBag
    /\ nextSubId = 1
    /\ transport = [e \in Endpoints |-> "sent"]
    /\ mailer = TRUE
    /\ poll = [p \in Polls |-> IdlePoll]
    /\ quiet = FALSE
    /\ flagged = {}
    /\ request = CronRequest
    /\ cronSecret = "s3cret"

\* the registries after the subscribers have set their preferences: a topic
\* set of the preferences route, or the default
PreferenceRegistries ==
    {{[id |-> 1, endpoint |-> "e1", email |-> EmailOf("e1"), topics |-> t1,
       last_success |-> NULL],
      [id |-> 2, endpoint |-> "e2", email |-> EmailOf("e2"), topics |-> t2,
       last_success |-> NULL]} : t1 \in TopicChoices \cup {DefaultTopics},
                                 t2 \in TopicChoices \cup {DefaultTopics}}

InitPreferences ==
    /\ feed = {}
    /\ proposals_seen = <<>>
    /\ push_subscriptions \in PreferenceRegistries
    /\ notification_log = EmptyBag
    /\ nextSubId = 3
    /\ transport \in [Endpoints -> PushOutcomes]
    /\ mailer \in BOOLEAN
    /\ poll = [p \in Polls |-> IdlePoll]
    /\ quiet = FALSE
    /\ flagged = {}
    /\ request = CronRequest
    /\ cronSecret = "s3cret"
    /\ InitCoordinators
    /\ governance = [i \in {} |-> NULL]
    /\ InitForum
    /\ InitBackfill({})

\* one invocation at a time; any store or feed call may throw
NextPreferences ==
    \/ POST(1)
    \/ ListProposals(1)
    \/ GetSeenProposalIds(1)
    \/ GetSubscriptions(1)
    \/ MarkProposalSeen(1)
    \/ Dispatch(1, Sites)
    \/ MarkProposalNotified(1)
    \/ Throw(1)

SpecPreferences == InitPreferences /\ [][NextPreferences]_vars

\* the poll route before its first request, with or without a configured secret
InitAuth ==
    /\ feed = {}
    /\ proposals_seen = <<>>
    /\ push_subscriptions \in InitialRegistries
    /\ notification_log = EmptyBag
    /\ nextSubId = 3
    /\ transport = [e \in Endpoints |-> "sent"]
    /\ mailer = TRUE
    /\ poll = [p \in Polls |-> IdlePoll]
    /\ quiet = FALSE
    /\ flagged = {}
    /\ request = CronRequest
    /\ cronSecret \in Secrets
    /\ InitCoordinators
    /\ governance = [i \in {} |-> NULL]
    /\ InitForum
    /\ InitBackfill({})

\* requests with any headers reach the route, one invocation at a time
NextAuth ==
    \/ Arrive(Requests)
    \/ Unauthorized(1)
    \/ POST(1)
    \/ ListProposals(1)
    \/ GetSeenProposalIds(1)
    \/ GetSubscriptions(1)
    \/ MarkProposalSeen(1)
    \/ Dispatch(1, {})
    \/ MarkProposalNotified(1)

SpecAuth == InitAuth /\ [][NextAuth]_vars

InitTrigger ==
    /\ StoreAtRest(MIN_PROPOSAL_ID - 1, MIN_PROPOSAL_ID + MaxNewIds - 1)
    /\ InitCoordinators
    /\ governance \in Governances
    /\ InitForum
    /\ InitBackfill({})

\* the two coordinators are invoked again and again while the job runner works
\* and time passes
NextTrigger ==
    \/ \E c \in Coordinators : CoordinatorPOST(c)
    \/ VerificationExamine
    \/ VerificationTrigger
    \/ CommentaryExamine
    \/ CommentaryTrigger
    \/ Appear
    \/ Complete
    \/ Tick

SpecTrigger == InitTrigger /\ [][NextTrigger]_vars

InitForumResolver ==
    /\ StoreAtRest(MIN_PROPOSAL_ID, MIN_PROPOSAL_ID + MaxLinked - 1)
    /\ InitCoordinators
    /\ governance = [i \in {} |-> NULL]
    /\ InitForum
    /\ InitBackfill({})

\* the resolver is invoked again and again, two invocations may overlap, and
\* threads are linked and unlinked by hand
NextForum ==
    \/ \E r \in Resolvers : \/ ResolverPOST(r, {"unauthorized", "unavailable", "error", "ok"})
                             \/ ResolverProcess(r, ForumSites)
    \/ ForumLinksPOST
    \/ ForumLinksDELETE

SpecForum == InitForumResolver /\ [][NextForum]_vars

\* one proposal more than an invocation processes is persisted, none with a
\* thread
InitForumBacklog ==
    /\ StoreAtRest(MIN_PROPOSAL_ID, MIN_PROPOSAL_ID + MAX_PROPOSALS_PER_REQUEST)
    /\ InitCoordinators
    /\ governance = [i \in {} |-> NULL]
    /\ InitForum
    /\ InitBackfill({})

\* the resolver is invoked again and again, one invocation after the other,
\* each authorized and with the store answering
NextForumRepeated ==
    \/ ResolverPOST(1, {"ok"})
    \/ ResolverProcess(1, {})

SpecForumRepeated ==
    InitForumBacklog /\ [][NextForumRepeated]_vars /\ WF_vars(NextForumRepeated)

InitBackfillPasses ==
    /\ StoreAtRest(MIN_PROPOSAL_ID, MIN_PROPOSAL_ID + MaxNewIds - 1)
    /\ InitCoordinators
    /\ governance = [i \in {} |-> NULL]
    /\ InitForum
    /\ InitBackfill(SeenIds(proposals_seen))

\* backfill passes, forced or not, one after the other, with
\* requests refused and errors thrown, while the poller's tasks finish
NextBackfill ==
    \/ \E b \in Backfills :
          \/ BackfillPOST(b, {"unauthorized", "error", "ok"}, BOOLEAN)
          \/ BackfillProcess(b, TRUE)
    \/ FetchDiffStats

SpecBackfill == InitBackfillPasses /\ [][NextBackfill]_vars

\* the timer keeps invoking the backfill, unforced; no request is refused and
\* nothing throws
NextBackfillRepeated ==
    \/ \E b \in Backfills :
          \/ BackfillPOST(b, {"ok"}, {FALSE})
          \/ BackfillProcess(b, FALSE)
    \/ FetchDiffStats

SpecBackfillRepeated ==
    InitBackfillPasses /\ [][NextBackfillRepeated]_vars /\ WF_vars(NextBackfillRepeated)

(* ------------------------------ claims -------------------------------- *)

SubIds == 1 .. MaxSubs

\* the rows of a log, with their multiplicity, for one pair and one channel
AttemptsIn(log, proposalId, subId, channel) ==
    LET rows == {r \in BagToSet(log) :
                    /\ r.proposal_id = proposalId
                    /\ r.subscription_id = subId
                    /\ r.channel = channel}
    IN  BagCardinality([r \in rows |-> CopiesIn(r, log)])

Attempts(proposalId, subId, channel) ==
    AttemptsIn(notification_log, proposalId, subId, channel)

\* the rows of the proposal store for one id
Records(proposalId) ==
    {i \in DOMAIN proposals_seen : proposals_seen[i].proposal_id = proposalId}

\* C1: for every proposal P and subscription S the log never holds more than
\* one push (primary channel) attempt for the pair (P, S), also when two
\* invocations overlap and both fetch P.
C1_AtMostOnePrimaryAttempt ==
    \A P \in ProposalIds : \A S \in SubIds : Attempts(P, S, "push") <= 1

\* C2: a poll that begins after an undisturbed poll has returned, over the same
\* feed content and with no change made to the subscriptions from outside,
\* inserts no proposal record and appends no row to the log.
C2_SecondPollWritesNothing ==
    [][\A p \in Polls :
          poll[p].track = "second" =>
             /\ proposals_seen' = proposals_seen
             /\ notification_log' = notification_log]_vars

\* C3: the store never holds two records of one proposal id, no invocation ends
\* with a duplicate-key error, and markProposalSeen for an id that is already
\* recorded leaves the table as it is and lets the invocation go on.
C3_OneRecordPerProposal ==
    /\ [](/\ \A P \in ProposalIds : Cardinality(Records(P)) <= 1
          /\ \A p \in Polls : poll[p].error # "duplicate")
    /\ [][\A p \in Polls :
             (/\ poll[p].pc = "markProposalSeen"
              /\ poll'[p].pc # "markProposalSeen"
              /\ Records(poll[p].proposal.id) # {})
             => /\ proposals_seen' = proposals_seen
                /\ poll'[p].pc \in {"dispatch", "markProposalNotified"}]_vars

\* C3 happens: both invocations are past markProposalSeen for the same id, and
\* the store holds one record of it
C3_Witness ==
    /\ \A p \in Polls : poll[p].pc \in {"dispatch", "markProposalNotified"}
    /\ poll[1].proposal.id = poll[2].proposal.id
    /\ Cardinality(Records(poll[1].proposal.id)) = 1

\* the push row the catch block writes
FailedRow(proposalId, sub, text) ==
    [proposal_id |-> proposalId, subscription_id |-> sub.id, channel |-> "push",
     status |-> "failed", error |-> text, email |-> sub.email]

RegisteredIn(table, endpoint) == \E s \in table : s.endpoint = endpoint

\* this step adds exactly one copy of row to the log
LogsOne(row) == CopiesIn(row, notification_log') = CopiesIn(row, notification_log) + 1

\* the rows this step adds to the log for the pair p is at, on one channel
Added(p, channel) ==
    AttemptsIn(notification_log', poll[p].proposal.id, poll[p].sub.id, channel)
      - AttemptsIn(notification_log, poll[p].proposal.id, poll[p].sub.id, channel)

\* this step is an iteration of p's inner loop that came to its end (it went on
\* to the next subscription or to markProposalNotified, not to the outer catch)
Dispatched(p) ==
    /\ poll[p].pc = "dispatch"
    /\ \/ poll'[p].pc = "markProposalNotified"
       \/ poll'[p].pc = "dispatch" /\ poll'[p].sub # poll[p].sub

\* C4: for every proposal with notified = true the log holds at least one row
\* (any channel, any status) for every subscription that was in the list of the
\* pass that set the flag with the proposal's topic in its topic set.
C4_NotifiedImpliesLogged ==
    \A i \in DOMAIN proposals_seen :
       proposals_seen[i].notified =>
          \A S \in SubIds :
             <<proposals_seen[i].proposal_id, S>> \in flagged =>
                \E r \in BagToSet(notification_log) :
                   /\ r.proposal_id = proposals_seen[i].proposal_id
                   /\ r.subscription_id = S

\* C4 happens: a proposal is notified, two subscriptions matched it, and one of
\* them is no longer registered
C4_Witness ==
    \E i \in DOMAIN proposals_seen :
       /\ proposals_seen[i].notified
       /\ \A S \in {1, 2} : <<proposals_seen[i].proposal_id, S>> \in flagged
       /\ \E S \in {1, 2} : \A s \in push_subscriptions : s.id # S

\* C5: when the push send itself succeeded, the pass makes no email attempt for
\* the pair, also when updateSubscriptionSuccess or the write of the 'sent' row
\* fails afterwards.
C5_NoFallbackAfterPushSuccess ==
    [][\A p \in Polls :
          (/\ poll[p].pc = "dispatch"
           /\ transport[poll[p].sub.endpoint] = "sent")
          => Added(p, "email") = 0]_vars

\* C6: when no invocation is in flight, every pair with a push row of status
\* 'failed' written for a subscription with a fallback address has exactly one
\* email row.
C6_ExactlyOneFallbackRow ==
    (\A p \in Polls : ~Running(p)) =>
       \A r \in BagToSet(notification_log) :
          (r.channel = "push" /\ r.status = "failed" /\ r.email # NULL)
          => Attempts(r.proposal_id, r.subscription_id, "email") = 1

\* C7: an iteration whose push fails with SUBSCRIPTION_EXPIRED (410 or 404) and
\* whose store calls go through leaves no row of that endpoint in the registry
\* and adds one push row of status 'failed'; and a subscription with such a row
\* in the log is never in the registry again.
C7_GoneEndpointRemoved ==
    /\ [][\A p \in Polls :
             (Dispatched(p) /\ transport[poll[p].sub.endpoint] = "expired")
             => /\ ~RegisteredIn(push_subscriptions', poll[p].sub.endpoint)
                /\ LogsOne(FailedRow(poll[p].proposal.id, poll[p].sub, "expired"))]_vars
    /\ [](\A r \in BagToSet(notification_log) :
             (r.channel = "push" /\ r.error = "expired")
             => \A s \in push_subscriptions : s.id # r.subscription_id)

\* C7 happens: the log holds the 'failed' row of a gone endpoint that has no
\* fallback address
C7_Witness ==
    \E r \in BagToSet(notification_log) :
       r.channel = "push" /\ r.status = "failed" /\ r.error = "expired" /\ r.email = NULL

\* C8: an iteration whose push fails with SUBSCRIPTION_EXPIRED for a
\* subscription with a fallback address, and whose store calls go through, adds
\* one push row of status 'failed', deletes the subscription and adds exactly
\* one email row for the pair.
C8_GoneWithFallback ==
    [][\A p \in Polls :
          (/\ Dispatched(p)
           /\ transport[poll[p].sub.endpoint] = "expired"
           /\ poll[p].sub.email # NULL)
          => /\ Added(p, "push") = 1
             /\ LogsOne(FailedRow(poll[p].proposal.id, poll[p].sub, "expired"))
             /\ \A s \in push_subscriptions' : s.id # poll[p].sub.id
             /\ Added(p, "email") = 1]_vars

\* C8 happens: a gone endpoint with a fallback address has its 'failed' row and
\* its email row, and is not registered
C8_Witness ==
    \E r \in BagToSet(notification_log) :
       /\ r.channel = "push" /\ r.error = "expired" /\ r.email # NULL
       /\ Attempts(r.proposal_id, r.subscription_id, "email") = 1
       /\ \A s \in push_subscriptions : s.id # r.subscription_id

\* C9 as stated: on a gone failure the subscription is deleted, the failure is
\* logged and no email is attempted; on any other push failure an email is
\* attempted if and only if the subscription has a fallback address.
C9_GoneMeansNoFallback ==
    [][\A p \in Polls :
          Dispatched(p) =>
             /\ transport[poll[p].sub.endpoint] = "expired"
                => /\ ~RegisteredIn(push_subscriptions', poll[p].sub.endpoint)
                   /\ LogsOne(FailedRow(poll[p].proposal.id, poll[p].sub, "expired"))
                   /\ Added(p, "email") = 0
             /\ transport[poll[p].sub.endpoint] = "failed"
                => Added(p, "email") = IF poll[p].sub.email # NULL THEN 1 ELSE 0]_vars

\* C9 amended: on a gone failure the subscription is deleted; on every push
\* failure, gone or not, the failure is logged and an email is attempted if and
\* only if the subscription has a fallback address.
C9_FallbackOnEveryFailure ==
    [][\A p \in Polls :
          (Dispatched(p) /\ transport[poll[p].sub.endpoint] \in {"expired", "failed"})
          => /\ transport[poll[p].sub.endpoint] = "expired"
                => ~RegisteredIn(push_subscriptions', poll[p].sub.endpoint)
             /\ transport[poll[p].sub.endpoint] = "failed"
                => push_subscriptions' = push_subscriptions
             /\ LogsOne(FailedRow(poll[p].proposal.id, poll[p].sub,
                                  IF transport[poll[p].sub.endpoint] = "expired"
                                  THEN "expired" ELSE "Push failed"))
             /\ Added(p, "push") = 1
             /\ Added(p, "email") = IF poll[p].sub.email # NULL THEN 1 ELSE 0]_vars

\* C9 happens: an ordinary push failure with a fallback address has its email
\* row, and a gone endpoint without one has none
C9_Witness ==
    /\ \E r \in BagToSet(notification_log) :
          /\ r.channel = "push" /\ r.error = "Push failed" /\ r.email # NULL
          /\ Attempts(r.proposal_id, r.subscription_id, "email") = 1
    /\ \E r \in BagToSet(notification_log) :
          /\ r.channel = "push" /\ r.error = "expired" /\ r.email = NULL
          /\ Attempts(r.proposal_id, r.subscription_id, "email") = 0

\* the table says proposalId is notified
NotifiedIn(table, proposalId) ==
    \E i \in DOMAIN table : table[i].proposal_id = proposalId /\ table[i].notified

Notified(proposalId) == NotifiedIn(proposals_seen, proposalId)

\* every subscription of p's list that wants p's proposal has a row in the log
AllAttemptsLogged(p) ==
    \A s \in poll[p].subscriptions :
       poll[p].proposal.topic \in s.topics =>
          \E r \in BagToSet(notification_log) :
             r.proposal_id = poll[p].proposal.id /\ r.subscription_id = s.id

\* C10: notified becomes true for a proposal only in a step of an invocation
\* that is past the inner loop for that proposal, with an attempt logged for
\* every matching subscription of its list; and once an invocation is past the
\* inner loop its next step sets the flag whatever rows the attempts left
\* (unless the store call itself throws).
C10_NotifiedAfterDispatch ==
    /\ [][\A P \in ProposalIds :
             (~Notified(P) /\ NotifiedIn(proposals_seen', P))
             => \E p \in Polls : /\ poll[p].pc = "markProposalNotified"
                                 /\ poll[p].proposal.id = P
                                 /\ AllAttemptsLogged(p)]_vars
    /\ [][\A p \in Polls :
             (/\ poll[p].pc = "markProposalNotified"
              /\ poll'[p].pc \notin {"markProposalNotified", "error"})
             => NotifiedIn(proposals_seen', poll[p].proposal.id)]_vars

\* C10 happens: a proposal is notified although every attempt for it failed,
\* one subscription was deleted and the fallback failed too
C10_Witness ==
    \E P \in ProposalIds :
       /\ Notified(P)
       /\ \E r \in BagToSet(notification_log) :
             r.proposal_id = P /\ r.channel = "email" /\ r.status = "failed"
       /\ \E r \in BagToSet(notification_log) :
             r.proposal_id = P /\ r.channel = "push" /\ r.error = "expired"
       /\ \A r \in BagToSet(notification_log) :
             r.proposal_id = P => r.status = "failed"

\* C11: a poll that returns normally leaves no proposal of the feed it fetched
\* persisted with notified = false: what an interrupted poll persisted and did
\* not dispatch, a later poll dispatches.
C11_LaterPollRecovers ==
    [][\A p \in Polls :
          (Running(p) /\ poll'[p].pc = "done")
          => \A i \in DOMAIN proposals_seen' :
                (\E q \in feed : q.id = proposals_seen'[i].proposal_id)
                => proposals_seen'[i].notified]_vars

(* ---------------------- claims: trigger coordinators ------------------ *)

Workflows == {"verify.yml", "commentary.yml"}

\* the dispatch requests the job runner accepted for a proposal and a workflow
Dispatches(proposalId, workflow) ==
    {r \in queued \cup workflow_runs : r.display_title = DisplayTitle(workflow, proposalId)}

\* C12: for every proposal and each workflow (verify.yml, commentary.yml) the
\* coordinators, invoked in any order and interleaving, dispatch at most one job,
\* the listing showing a dispatched job only some time after the dispatch.
C12_NeverDoubleTriggered ==
    \A i \in RecentIds, w \in Workflows : Cardinality(Dispatches(i, w)) <= 1

\* the decision rule for a listing as reported
ShouldVerify(runs, proposalId) ==
    /\ proposalId >= MIN_PROPOSAL_ID
    /\ isUpgradeProposal(getProposal(governance, proposalId))
    /\ ~hasSuccessfulVerification(runs, proposalId)
    /\ ~hasRecentWorkflowRun(runs, proposalId, now, WithinMinutes)

\* trigger-verification examines a proposal and does not throw
Examined(proposalId) ==
    /\ coord[VERIFICATION].pc = "loop"
    /\ proposalId = MaxOf(coord[VERIFICATION].proposals)
    /\ coord'[VERIFICATION].pc # "error"
    /\ coord'[VERIFICATION] # coord[VERIFICATION]

\* C13: trigger-verification issues the trigger for a proposal it examines if and
\* only if the id is at or above the floor, the proposal has a target canister or
\* an expected wasm hash, the listing reports no successful verification job for
\* the id and no job for the id created within the trailing window (the listing
\* being the runs of the job runner, or nothing when the request for it fails);
\* so a proposal whose only job failed or was cancelled before the window is
\* triggered again.
C13_TriggerDecisionRule ==
    [][\A i \in RecentIds :
          Examined(i)
          => \E reported \in {workflow_runs, {}} :
                (coord'[VERIFICATION].pc = "trigger" /\ coord'[VERIFICATION].proposal = i)
                <=> ShouldVerify(reported, i)]_vars

\* C14: after a coordinator has issued the trigger for a proposal, every proposal
\* of the invocation with a refused dispatch request is in the failure list of
\* the summary, also when verify.yml and commentary.yml are both refused, and
\* the loop goes on to the remaining proposals.
C14_FailedTriggersReported ==
    [][\A c \in Coordinators :
          (coord[c].pc = "trigger" /\ coord'[c] # coord[c])
          => /\ coord'[c].pc = (IF coord[c].proposals = {} THEN "done" ELSE "loop")
             /\ coord'[c].proposals = coord[c].proposals
             /\ \A x \in coord'[c].refused :
                   \E f \in coord'[c].failed : f.proposalId = x[1]]_vars

(* ------------------------- claims: forum resolver --------------------- *)

Canonical(table, proposalId) ==
    {u \in table : u.proposal_id = proposalId /\ u.is_canonical}

\* C15: whatever resolver runs (one after the other or overlapping) and manual
\* additions through forum-links POST have happened, a proposal has at most one
\* thread with is_canonical = true.
C15_AtMostOneCanonical ==
    \A i \in SeenIds(proposals_seen) : Cardinality(Canonical(proposal_forum_threads, i)) <= 1

(* ----------------------- claims: diff-stats backfill ------------------ *)

\* a step of the loop of pass b
PassStep(b) == backfill[b].pc = "loop" /\ backfill'[b] # backfill[b]

\* C16: the line counts of a proposal that were set when an unforced backfill
\* pass started (a resolved value or 0/0) are left as they are by every step of
\* that pass.
C16_DiffStatFinality ==
    [][\A b \in Backfills, i \in DOMAIN seen_columns :
          (PassStep(b) /\ ~backfill[b].forced /\ i \in backfill[b].resolvedAtStart)
          => /\ seen_columns'[i].lines_added = seen_columns[i].lines_added
             /\ seen_columns'[i].lines_removed = seen_columns[i].lines_removed]_vars

\* an unforced pass that started with line counts set for one proposal has
\* processed another
C16_Witness ==
    \E b \in Backfills :
       /\ backfill[b].pc = "done"
       /\ ~backfill[b].forced
       /\ backfill[b].resolvedAtStart # {}
       /\ backfill[b].processed > 0

\* the candidates of an unforced pass, whatever its batch size
Candidates(table) == getProposalsNeedingDiffStats(table, BatchCap)

\* C17: a candidate that a pass has processed without a thrown error has its
\* line counts set (the resolved value, or 0/0 when no step resolved), so it is
\* no candidate of a later unforced pass; and when the passes are repeated,
\* with no new proposals and no errors, a pass with no candidates comes.
C17_BackfillProgress ==
    /\ [][\A b \in Backfills :
             PassStep(b)
             => LET i == MaxOf(backfill[b].proposals)
                IN [proposalId |-> i, status |-> "failed"] \notin backfill'[b].details
                   => /\ seen_columns'[i].lines_added # UNRESOLVED
                      /\ seen_columns'[i].lines_removed # UNRESOLVED
                      /\ i \notin Candidates(seen_columns')]_vars
    /\ <>(\E b \in Backfills : backfill[b].pc = "done" /\ backfill[b].proposals = {}
                                 /\ backfill[b].processed = 0)

\* a pass found no candidates after an earlier pass had stored 0/0
C17_Witness ==
    /\ \E b \in Backfills : backfill[b].pc = "done" /\ backfill[b].processed = 0
    /\ \E i \in DOMAIN seen_columns :
          /\ seen_columns[i].lines_added = 0
          /\ seen_columns[i].commit_hash # NULL

(* ------------------------- claims: topic preferences ------------------ *)

Tracked ==
    LET union == UNION {s.topics : s \in push_subscriptions}
    IN  IF union = {} THEN PROPOSAL_TOPICS ELSE union

\* the fetched proposals a poll is to persist
ToPersist(p) ==
    {q \in poll[p].proposals : /\ q.id >= MIN_PROPOSAL_ID
                               /\ q.topic \in Tracked
                               /\ q.id \notin SeenIds(proposals_seen)}

\* C19: a poll selects for persisting exactly the fetched proposals with an id
\* at or above the floor, a topic in the tracked set and an id not in the store;
\* it persists and dispatches no other proposal, and when it returns normally
\* it has persisted all of them.
C19_PersistedExactlyFiltered ==
    [][/\ \A p \in Polls :
             (poll[p].pc = "getSubscriptions" /\ poll'[p].pc \in {"markProposalSeen", "done"})
             => {q.id : q \in poll'[p].newProposals} = {q.id : q \in ToPersist(p)}
       /\ \A i \in SeenIds(proposals_seen') \ SeenIds(proposals_seen) :
             \E p \in Polls : \E q \in poll[p].newProposals : q.id = i
       /\ \A p \in Polls :
             poll'[p].pc \in {"dispatch", "markProposalNotified"}
             => poll'[p].proposal \in poll'[p].newProposals
       /\ \A p \in Polls :
             (poll[p].pc = "markProposalNotified" /\ poll'[p].pc = "done")
             => \A q \in poll[p].newProposals : q.id \in SeenIds(proposals_seen')]_vars

\* C20: when listProposals throws, the invocation ends with the error response,
\* and neither its start nor its failure changes the proposal store, the
\* subscription registry or the notification log.
C20_FeedUnreachableLeavesStateIntact ==
    [][\A p \in Polls :
          /\ (poll[p].pc = "listProposals"
                 /\ poll'[p].pc \notin {"listProposals", "getSeenProposalIds"})
             => /\ poll'[p].pc = "error"
                /\ UNCHANGED <<proposals_seen, push_subscriptions, notification_log>>
          /\ (~Running(p) /\ poll'[p].pc = "listProposals")
             => UNCHANGED <<proposals_seen, push_subscriptions, notification_log>>]_vars

\* an invocation that followed an undisturbed one failed at listProposals, with
\* a store, a registry and a log that are not empty
C20_Witness ==
    /\ poll[1].pc = "error"
    /\ poll[1].error = "thrown"
    /\ quiet
    /\ DOMAIN proposals_seen # {}
    /\ push_subscriptions # {}
    /\ notification_log # EmptyBag

(* --------------------------- claims: authorization -------------------- *)

\* the request carries the configured shared secret as its bearer credential
Credentialed(req) == cronSecret # "undefined" /\ req.authorization = Bearer(cronSecret)

\* C21: a poll request without the correct bearer credential is rejected and
\* has no side effect: no invocation runs for it, and nothing is written to the
\* proposal store, the subscription registry or the notification log while it
\* is the request at the route, whatever its other headers and whether or not
\* the secret is configured.
C21_UnauthorizedNoSideEffect ==
    [][~Credentialed(request')
       => /\ \A p \in Polls : ~Running(p)'
          /\ UNCHANGED <<proposals_seen, push_subscriptions, notification_log>>]_vars

(* --------------------------- claims: failure isolation ---------------- *)

\* C22: a failure while one subscription is processed (a delivery failure or a
\* failed store write of that iteration) never aborts the invocation: the
\* iteration is followed by the next subscription that wants the proposal or
\* by the end of the inner loop, never by the outer catch.
C22_PerItemFailureIsolation ==
    [][\A p \in Polls :
          poll[p].pc = "dispatch"
          => poll'[p].pc \in {"dispatch", "markProposalNotified"}]_vars

(* --------------------------- claims: dead endpoints ------------------- *)

\* invocation p runs one iteration of the inner loop in this step: a primary
\* delivery attempt to poll[p].sub.endpoint
Attempt(p) ==
    /\ poll[p].pc = "dispatch"
    /\ poll'[p].pc # "dispatch" \/ poll'[p].sub # poll[p].sub

\* C23: no primary delivery attempt is made to an endpoint whose subscription
\* was deleted on the gone signal and that has not subscribed again, neither
\* for the remaining proposals of the same batch nor in a later invocation.
C23_DeadEndpointTerminal ==
    [][\A p \in Polls :
          Attempt(p) => \E s \in push_subscriptions : s.endpoint = poll[p].sub.endpoint]_vars

(* --------------------------- claims: forum search audit --------------- *)

\* the proposals an invocation has processed so far
Processed(rec) == rec.found \cup rec.notFound \cup rec.errors

\* the rows an invocation has inserted into forum_search_log for a proposal
SearchRows(rec, id) == {k \in DOMAIN rec.logged : rec.logged[k].proposal_id = id}

\* C24: every proposal a resolver invocation has processed has exactly one
\* forum_search_log row of that invocation, and the row's status is 'success'
\* if and only if the invocation recorded a canonical thread for the proposal.
C24_ForumSearchAudit ==
    \A r \in Resolvers : \A id \in Processed(resolver[r]) :
       /\ Cardinality(SearchRows(resolver[r], id)) = 1
       /\ \A k \in SearchRows(resolver[r], id) :
             resolver[r].logged[k].status = "success" <=> id \in resolver[r].found

\* C25: a step of a resolver invocation deletes no forum thread record and
\* turns no is_canonical from true to false; a thread added by hand is still
\* there after the step.
C25_ResolverKeepsThreads ==
    [][resolver' # resolver
       => \A u \in proposal_forum_threads :
             \E v \in proposal_forum_threads' :
                /\ v.proposal_id = u.proposal_id
                /\ v.forum_url = u.forum_url
                /\ u.is_canonical => v.is_canonical]_vars

\* an invocation has recorded a canonical thread for a proposal that also has a
\* non-canonical thread
C25_Witness ==
    \E r \in Resolvers : \E id \in resolver[r].found :
       /\ resolver[r].pc = "done"
       /\ \E u \in proposal_forum_threads : u.proposal_id = id /\ ~u.is_canonical
       /\ \E u \in proposal_forum_threads : u.proposal_id = id /\ u.is_canonical

(* ---------------------- claims: commentary coordinator ---------------- *)

\* the commentary decision rule for a listing as reported
ShouldComment(runs, proposalId) ==
    /\ proposalId >= MIN_PROPOSAL_ID
    /\ \E detail \in getProposal(governance, proposalId) :
          detail.expectedWasmHash # NULL \/ detail.canisterId # NULL
    /\ proposalId \notin proposal_commentaries
    /\ ~\E r \in runs : /\ r.display_title = DisplayTitle("commentary.yml", proposalId)
                        /\ now - r.created_at < CommentaryWithinMinutes

\* trigger-commentary examines a proposal and does not throw
CommentaryExamined(proposalId) ==
    /\ coord[COMMENTARY].pc = "loop"
    /\ proposalId = MaxOf(coord[COMMENTARY].proposals)
    /\ coord'[COMMENTARY].pc # "error"
    /\ coord'[COMMENTARY] # coord[COMMENTARY]

C27_ListingFailureNoTrigger ==
    \A c \in Coordinators : coord[c].pc = "trigger" => coord[c].answered

(* ----------------------- claims: diff-stat writes --------------------- *)

\* C28: the completion of a diff-stat task of the poller changes no line
\* counts that are already set, in particular not the 0/0 a backfill pass
\* wrote while the task was in flight.
C28_DiffStatsWrittenOnce ==
    [][pendingFetch' # pendingFetch
       => \A id \in DOMAIN seen_columns :
             seen_columns[id].lines_added # UNRESOLVED
             => seen_columns'[id] = seen_columns[id]]_vars

(* ----------------------- claims: resolver starvation ------------------ *)

\* the resolver has searched the forum for the proposal
Searched(proposalId) == \E row \in forum_search_log : row.proposal_id = proposalId

\* C29: under repeated invocations every persisted recent proposal, none having
\* a canonical thread at first, is eventually searched, whether or not the
\* proposals ahead of it in the candidate order obtain a canonical thread.
C29_NoStarvation ==
    \A i \in MIN_PROPOSAL_ID .. (MIN_PROPOSAL_ID + MAX_PROPOSALS_PER_REQUEST) : <>Searched(i)

(* --------------------------- claims: re-opt-in ------------------------ *)

\* C30: subscribing again (saveSubscription without topics, the only call that
\* writes the registry's topics while the preferences route is not called)
\* keeps one record for the endpoint and leaves its stored topic set unchanged.
C30_ResubscribeKeepsTopics ==
    [][\A s \in push_subscriptions :
          /\ Cardinality({t \in push_subscriptions' : t.endpoint = s.endpoint}) <= 1
          /\ \A t \in push_subscriptions' :
                t.endpoint = s.endpoint => t.topics = s.topics]_vars
====
